---- MODULE Spec2Model ----
(***************************************************************************)
(* Token Economics Calculator (duralsh/arena-ICM).                         *)
(*                                                                         *)
(* Two front ends drive the same validation and derivation arithmetic:     *)
(*   src/app.py  - the Streamlit web app (a script re-run on every slider  *)
(*                 change),                                                *)
(*   src/run.py  - the tkinter desktop GUI (slider variables with write    *)
(*                 traces, validate-before-commit with rollback).          *)
(*                                                                         *)
(* Python floats are IEEE-754 binary64.  The thresholds 0.1, 0.2, 0.5 and  *)
(* the quotients of the derivation are not representable exactly, so the   *)
(* arithmetic is modelled with its rounding (round-to-nearest, ties to     *)
(* even), not over the rationals.  TLC integers are 32 bits wide, so the   *)
(* 53-bit significands are kept as little-endian sequences of 15-bit       *)
(* limbs.                                                                  *)
(***************************************************************************)
EXTENDS Integers, Sequences, FiniteSets, TLC

\* ------------------------------------------------------------------------
\* Natural numbers of arbitrary size: little-endian limbs, <<>> is zero.
\* ------------------------------------------------------------------------
LimbBits == 5 * 3
Base == 2^LimbBits

Limb(a, i) == IF i >= 1 /\ i <= Len(a) THEN a[i] ELSE 0

RECURSIVE BNorm(_)
BNorm(a) ==
    IF a = <<>> THEN a
    ELSE IF a[Len(a)] = 0 THEN BNorm(SubSeq(a, 1, Len(a) - 1))
    ELSE a

RECURSIVE BFromInt(_)
BFromInt(n) == IF n = 0 THEN <<>> ELSE <<n % Base>> \o BFromInt(n \div Base)

RECURSIVE BAddC(_, _, _, _)
BAddC(a, b, i, c) ==
    IF i > Len(a) /\ i > Len(b)
    THEN (IF c = 0 THEN <<>> ELSE <<c>>)
    ELSE LET s == Limb(a, i) + Limb(b, i) + c
         IN  <<s % Base>> \o BAddC(a, b, i + 1, s \div Base)

BAdd(a, b) == BNorm(BAddC(a, b, 1, 0))

\* a - b for a >= b
RECURSIVE BSubC(_, _, _, _)
BSubC(a, b, i, br) ==
    IF i > Len(a) THEN <<>>
    ELSE LET d == a[i] - Limb(b, i) - br
         IN  IF d < 0 THEN <<d + Base>> \o BSubC(a, b, i + 1, 1)
                      ELSE <<d>> \o BSubC(a, b, i + 1, 0)

BSub(a, b) == BNorm(BSubC(a, b, 1, 0))

RECURSIVE BCmpAt(_, _, _)
BCmpAt(a, b, i) ==
    IF i = 0 THEN 0
    ELSE IF a[i] # b[i] THEN (IF a[i] < b[i] THEN -1 ELSE 1)
    ELSE BCmpAt(a, b, i - 1)

\* -1, 0, 1 for a < b, a = b, a > b (both normalised)
BCmp(a, b) ==
    IF Len(a) # Len(b) THEN (IF Len(a) < Len(b) THEN -1 ELSE 1)
    ELSE BCmpAt(a, b, Len(a))

RECURSIVE BMulSmallC(_, _, _, _)
BMulSmallC(a, k, i, c) ==
    IF i > Len(a) THEN (IF c = 0 THEN <<>> ELSE <<c>>)
    ELSE LET s == a[i] * k + c
         IN  <<s % Base>> \o BMulSmallC(a, k, i + 1, s \div Base)

\* a * k for 0 <= k <= Base
BMulSmall(a, k) == BNorm(BMulSmallC(a, k, 1, 0))

RECURSIVE BMulAt(_, _, _)
BMulAt(a, b, j) ==
    IF j > Len(b) THEN <<>>
    ELSE LET rest == BMulAt(a, b, j + 1)
         IN  BAdd(BMulSmall(a, b[j]),
                  IF rest = <<>> THEN <<>> ELSE <<0>> \o rest)

BMul(a, b) == BMulAt(a, b, 1)

\* a * 2^n
BShl(a, n) ==
    IF a = <<>> THEN a
    ELSE LET q == n \div LimbBits
             r == n % LimbBits
             hi == 2^(LimbBits - r)
             s == [i \in 1..(Len(a) + 1) |->
                     (Limb(a, i) % hi) * 2^r + (Limb(a, i - 1) \div hi)]
         IN  [i \in 1..q |-> 0] \o BNorm(s)

\* floor(a / 2^n)
BShr(a, n) ==
    LET q == n \div LimbBits
        r == n % LimbBits
        d == IF q >= Len(a) THEN <<>> ELSE SubSeq(a, q + 1, Len(a))
    IN  BNorm([i \in 1..Len(d) |->
                 (d[i] \div 2^r) + (Limb(d, i + 1) % 2^r) * 2^(LimbBits - r)])

\* a mod 2^n
BLow(a, n) ==
    LET q == n \div LimbBits
        r == n % LimbBits
    IN  BNorm([i \in 1..(q + 1) |->
                 IF i <= q THEN Limb(a, i) ELSE Limb(a, i) % 2^r])

IntBitLen(x) == CHOOSE k \in 1..LimbBits : 2^(k - 1) <= x /\ x < 2^k

BitLen(a) ==
    IF a = <<>> THEN 0 ELSE LimbBits * (Len(a) - 1) + IntBitLen(a[Len(a)])

BIsOdd(a) == a # <<>> /\ a[1] % 2 = 1

BPow2(n) == BShl(<<1>>, n)

\* largest q <= qh with q * b <= R, and the remainder R - q * b
RECURSIVE BFix(_, _, _)
BFixAt(R, b, qh, p) ==
    IF BCmp(p, R) > 0 THEN BFix(R, b, qh - 1)
    ELSE [q |-> qh, r |-> BSub(R, p)]

BFix(R, b, qh) == BFixAt(R, b, qh, BMulSmall(b, qh))

BDivEst(R, b, est) == BFix(R, b, IF est > Base - 1 THEN Base - 1 ELSE est)

\* one digit of long division in base 2^15 (Knuth's algorithm D): quotient
\* digit and remainder of R = r * Base by b, for r < b and the top limb of b
\* at least Base / 2
BDivDigit(R, b) ==
    BDivEst(R, b, (Limb(R, Len(b) + 1) * Base + Limb(R, Len(b))) \div b[Len(b)])

\* k digits of long division: quotient and remainder of r * Base^k by b, the
\* quotient digits put below q
RECURSIVE BDivLoop(_, _, _, _)
BDivStep(d, b, q, k) == BDivLoop(d.r, b, <<d.q>> \o q, k - 1)

BDivLoop(r, b, q, k) ==
    IF k = 0 THEN [q |-> BNorm(q), r |-> r]
    ELSE BDivStep(BDivDigit(IF r = <<>> THEN r ELSE <<0>> \o r, b), b, q, k)

\* ------------------------------------------------------------------------
\* binary64: sg * m * 2^e with sg in {-1, 0, 1} and 2^52 <= m < 2^53 unless
\* zero.  The program's values lie between 1e-7 and 1e13 in magnitude, so
\* neither overflow nor subnormals arise.  sg = 2 stands for a raised
\* ZeroDivisionError.
\* ------------------------------------------------------------------------
Precision == 50 + 3
DivDigits == 2 * 2
DivBits == DivDigits * LimbBits
\* shift that brings the top limb of a significand to at least Base / 2
DivNorm == DivBits - Precision

FZero == [sg |-> 0, m |-> <<>>, e |-> 0]
FError == [sg |-> 2, m |-> <<>>, e |-> 0]

\* the rounded significand m1 may have reached 2^53
FRoundCarry(sg, m1, e) ==
    IF BitLen(m1) > Precision
    THEN [sg |-> sg, m |-> BShr(m1, 1), e |-> e + 1]
    ELSE [sg |-> sg, m |-> m1, e |-> e]

\* top is the kept part, c compares the dropped part with half a unit
FRoundTies(sg, top, e, c, sticky) ==
    FRoundCarry(sg,
                IF c > 0 \/ (c = 0 /\ (sticky \/ BIsOdd(top)))
                THEN BAdd(top, <<1>>) ELSE top,
                e)

FRoundBits(sg, n, e, sticky, L) ==
    IF L <= Precision
    THEN [sg |-> sg, m |-> BShl(n, Precision - L), e |-> e - (Precision - L)]
    ELSE FRoundTies(sg, BShr(n, L - Precision), e + (L - Precision),
                    BCmp(BLow(n, L - Precision), BPow2(L - Precision - 1)),
                    sticky)

\* round sg * n * 2^e (plus a nonzero tail below n if sticky) to nearest, even
FRound(sg, n, e, sticky) ==
    IF n = <<>> THEN FZero ELSE FRoundBits(sg, n, e, sticky, BitLen(n))

\* int -> float, exact for |n| < 2^31
FromInt(n) ==
    IF n = 0 THEN FZero
    ELSE FRound(IF n < 0 THEN -1 ELSE 1, BFromInt(IF n < 0 THEN -n ELSE n), 0, FALSE)

FNeg(x) == [x EXCEPT !.sg = IF x.sg = 2 THEN 2 ELSE -x.sg]
FAbs(x) == [x EXCEPT !.sg = IF x.sg = 0 \/ x.sg = 2 THEN x.sg ELSE 1]

\* a and b are the significands brought to the common exponent e
FAddDiff(sx, sy, a, b, e, c) ==
    IF c = 0 THEN FZero
    ELSE FRound(IF c > 0 THEN sx ELSE sy,
                IF c > 0 THEN BSub(a, b) ELSE BSub(b, a), e, FALSE)

FAddAligned(sx, sy, a, b, e) ==
    IF sx = sy THEN FRound(sx, BAdd(a, b), e, FALSE)
    ELSE FAddDiff(sx, sy, a, b, e, BCmp(a, b))

FAddAt(x, y, e) ==
    FAddAligned(x.sg, y.sg, BShl(x.m, x.e - e), BShl(y.m, y.e - e), e)

FAdd(x, y) ==
    IF x.sg = 2 \/ y.sg = 2 THEN FError
    ELSE IF x.sg = 0 THEN y
    ELSE IF y.sg = 0 THEN x
    ELSE FAddAt(x, y, IF x.e < y.e THEN x.e ELSE y.e)

FSub(x, y) == FAdd(x, FNeg(y))

FMul(x, y) ==
    IF x.sg = 2 \/ y.sg = 2 THEN FError
    ELSE IF x.sg = 0 \/ y.sg = 0 THEN FZero
    ELSE FRound(x.sg * y.sg, BMul(x.m, y.m), x.e + y.e, FALSE)

FDivRound(sg, d, e) == FRound(sg, d.q, e, d.r # <<>>)

FDivFirst(sg, a, b, e, ge) ==
    FDivRound(sg,
              BDivLoop(IF ge THEN BSub(a, b) ELSE a, b,
                       IF ge THEN <<1>> ELSE <<>>, DivDigits),
              e)

FDivScaled(sg, a, b, e) == FDivFirst(sg, a, b, e, BCmp(a, b) >= 0)

\* true division; Python raises ZeroDivisionError on a zero divisor
FDiv(x, y) ==
    IF x.sg = 2 \/ y.sg = 2 \/ y.sg = 0 THEN FError
    ELSE IF x.sg = 0 THEN FZero
    ELSE FDivScaled(x.sg * y.sg, BShl(x.m, DivNorm), BShl(y.m, DivNorm),
                    x.e - y.e - DivBits)

FCmp(x, y) ==
    IF x.sg # y.sg THEN (IF x.sg < y.sg THEN -1 ELSE 1)
    ELSE IF x.sg = 0 THEN 0
    ELSE x.sg * (IF x.e # y.e THEN (IF x.e < y.e THEN -1 ELSE 1)
                 ELSE BCmp(x.m, y.m))

FLt(x, y) == FCmp(x, y) < 0
FGt(x, y) == FCmp(x, y) > 0
FLe(x, y) == FCmp(x, y) <= 0
FGe(x, y) == FCmp(x, y) >= 0

\* a decimal literal n/d is read as the double nearest to it
Lit(n, d) == FDiv(FromInt(n), FromInt(d))

RECURSIVE BToInt(_)
BToInt(a) == IF a = <<>> THEN 0 ELSE a[1] + Base * BToInt(Tail(a))

\* the integer part of a double of magnitude below 2^31
FToInt(x) ==
    IF x.sg = 0 THEN 0
    ELSE x.sg * BToInt(IF x.e < 0 THEN BShr(x.m, -x.e) ELSE BShl(x.m, x.e))

\* ------------------------------------------------------------------------
\* Program constants: slider ranges and defaults (the same in both front
\* ends), and the bounds of the model.
\* ------------------------------------------------------------------------
TeamMin == 0
TeamMax == 30
TeamDefault == 10
PublicMin == 0
PublicMax == 100
PublicDefault == 70
FundsMin == 10000
FundsMax == 2000000
FundsStep == 10000
FundsDefault == 100000

\* the state machines move the funds slider up to this many steps above its
\* default position
FundsWindow == 1
\* the desktop GUI's team slider is moved within this many steps of its
\* default position
TeamWindow == 8
\* the desktop GUI's public slider is moved to its minimum and within this
\* many steps of its default position
PublicWindow == 8
\* the validator is also called on public percentages given in tenths, this
\* many tenths either side of 89.9
TenthsWindow == 15

TeamRange == TeamMin..TeamMax
PublicRange == PublicMin..PublicMax
FundsRange == {FundsStep * k : k \in (FundsMin \div FundsStep)..(FundsMax \div FundsStep)}
FundsNear == {f \in FundsRange :
                 f >= FundsDefault /\ f <= FundsDefault + FundsWindow * FundsStep}
TeamNear == {t \in TeamRange :
                t >= TeamDefault - TeamWindow /\ t <= TeamDefault + TeamWindow}
PublicNear == {p \in PublicRange :
                  \/ p = PublicMin
                  \/ p >= PublicDefault - PublicWindow /\ p <= PublicDefault + PublicWindow}

MsgLpZero == "LP cannot be 0%"
MsgLpFdv == "LP FDV would drop below ICO FDV"
WarnLpZero == "At MINIMUM: LP cannot be 0% (slider blocked)"
WarnLpFdv == "At MINIMUM constraint: LP FDV = ICO FDV (slider blocked)"

Hundred == FromInt(100)
TenBillion == FMul(FromInt(100000), FromInt(100000))
PointOne == Lit(1, 10)
PointTwo == Lit(2, 10)
PointFive == Lit(5, 10)
One == FromInt(1)

VARIABLES
    TOTAL_SUPPLY,       \* 10 billion tokens
    LP_FUND_PERCENT,    \* 0.20
    \* desktop GUI (src/run.py)
    team_var,           \* tk.DoubleVar behind the team slider
    funds_var,          \* tk.DoubleVar behind the funds slider
    public_var,         \* tk.DoubleVar behind the public slider
    prev_team,          \* committed team percentage
    prev_public,        \* committed public percentage
    team_traces,        \* validate_and_update traces registered on team_var
    public_traces,      \* validate_and_update traces registered on public_var
    display,            \* what the last update_calculations computed and showed
    updated,            \* the last write's traces ran update_calculations
    validations,        \* times the last write's traces entered validate_and_update
    gui_pc,             \* "idle", or the slider whose write is being traced
    \* web app (src/app.py)
    team_percent,       \* value of the team slider
    funds_to_raise,     \* value of the funds slider
    public_percent,     \* value of the public slider
    web_pc,             \* "rerun": script about to run; "stopped": st.stop(); "done"
    is_valid,
    lp_percent,
    error_msg,
    derived,            \* the values computed after the validity gate
    \* the functions called on their own
    fn_call,
    fn_ret

consts == <<TOTAL_SUPPLY, LP_FUND_PERCENT>>
guiVars == <<team_var, funds_var, public_var, prev_team, prev_public,
             team_traces, public_traces, display, updated, validations,
             gui_pc>>
webVars == <<team_percent, funds_to_raise, public_percent, web_pc, is_valid,
             lp_percent, error_msg, derived>>
fnVars == <<fn_call, fn_ret>>
vars == <<consts, guiVars, webVars, fnVars>>

\* ------------------------------------------------------------------------
\* src/app.py
\* ------------------------------------------------------------------------
\* validate_allocation with the FDV limit itself rejected
AllocationChecksAtLimit(public, lp) ==
    IF FLt(lp, PointOne)
    THEN [valid |-> FALSE, lp_percent |-> lp, error_msg |-> MsgLpZero]
    ELSE IF FGt(public, PointOne) /\ FGe(lp, FMul(PointTwo, public))
    THEN [valid |-> FALSE, lp_percent |-> lp, error_msg |-> MsgLpFdv]
    ELSE [valid |-> TRUE, lp_percent |-> lp, error_msg |-> ""]

\* the two checks of validate_allocation on the computed lp_percent
AllocationChecks(public, lp) ==
    IF FLt(lp, PointOne)
    THEN [valid |-> FALSE, lp_percent |-> lp, error_msg |-> MsgLpZero]
    ELSE IF FGt(public, PointOne) /\ FGt(lp, FMul(PointTwo, public))
    THEN [valid |-> FALSE, lp_percent |-> lp, error_msg |-> MsgLpFdv]
    ELSE [valid |-> TRUE, lp_percent |-> lp, error_msg |-> ""]

validate_allocation(team, public) ==
    AllocationChecks(public, FSub(FSub(Hundred, team), public))

\* the module-level computation after the validity gate, block by block:
\* the FDV multiple
DeriveMultiple(tt, pt, lt, lf, tf, ip, lpp, fdv_ico, fdv_lp) ==
    [team_tokens |-> tt, public_tokens |-> pt, lp_tokens |-> lt,
     lp_funds |-> lf, team_funds |-> tf, ico_price |-> ip, lp_price |-> lpp,
     fdv_ico |-> fdv_ico, fdv_lp |-> fdv_lp,
     fdv_multiple |-> IF FGt(fdv_ico, FZero) THEN FDiv(fdv_lp, fdv_ico) ELSE FZero]

\* the FDVs
DeriveFdvs(tt, pt, lt, lf, tf, ico_price, lp_price) ==
    DeriveMultiple(tt, pt, lt, lf, tf, ico_price, lp_price,
                   FMul(TOTAL_SUPPLY, ico_price), FMul(TOTAL_SUPPLY, lp_price))

\* the prices computed without the zero-denominator guards
DerivePricesUnguarded(funds, team_tokens, public_tokens, lp_tokens, lp_funds, team_funds) ==
    DeriveFdvs(team_tokens, public_tokens, lp_tokens, lp_funds, team_funds,
               FDiv(funds, public_tokens), FDiv(lp_funds, lp_tokens))

\* the prices
DerivePrices(funds, team_tokens, public_tokens, lp_tokens, lp_funds, team_funds) ==
    DeriveFdvs(team_tokens, public_tokens, lp_tokens, lp_funds, team_funds,
               IF FGt(public_tokens, FZero) THEN FDiv(funds, public_tokens) ELSE FZero,
               IF FGt(lp_tokens, FZero) THEN FDiv(lp_funds, lp_tokens) ELSE FZero)

\* the derivation with the team given the LP's share of the funds
DerivationSameShare(team, public, lp, funds) ==
    DerivePrices(funds,
                 FMul(TOTAL_SUPPLY, FDiv(team, Hundred)),
                 FMul(TOTAL_SUPPLY, FDiv(public, Hundred)),
                 FMul(TOTAL_SUPPLY, FDiv(lp, Hundred)),
                 FMul(funds, LP_FUND_PERCENT),
                 FMul(funds, LP_FUND_PERCENT))

\* the token allocations and the funds distribution
Derivation(team, public, lp, funds) ==
    DerivePrices(funds,
                 FMul(TOTAL_SUPPLY, FDiv(team, Hundred)),
                 FMul(TOTAL_SUPPLY, FDiv(public, Hundred)),
                 FMul(TOTAL_SUPPLY, FDiv(lp, Hundred)),
                 FMul(funds, LP_FUND_PERCENT),
                 FMul(funds, FSub(One, LP_FUND_PERCENT)))

NoDerived ==
    [team_tokens |-> FZero, public_tokens |-> FZero, lp_tokens |-> FZero,
     lp_funds |-> FZero, team_funds |-> FZero, ico_price |-> FZero,
     lp_price |-> FZero, fdv_ico |-> FZero, fdv_lp |-> FZero,
     fdv_multiple |-> FZero]

WebInit ==
    /\ team_percent = TeamDefault
    /\ funds_to_raise = FundsDefault
    /\ public_percent = PublicDefault
    /\ web_pc = "rerun"
    /\ is_valid = FALSE
    /\ lp_percent = FZero
    /\ error_msg = ""
    /\ derived = NoDerived

\* the script from the validity gate on: st.stop(), or the derivation
ValidityGate(r) ==
    /\ is_valid' = r.valid
    /\ lp_percent' = r.lp_percent
    /\ error_msg' = r.error_msg
    /\ IF ~r.valid
       THEN /\ web_pc' = "stopped"
            /\ derived' = NoDerived
       ELSE /\ web_pc' = "done"
            /\ derived' = Derivation(FromInt(team_percent), FromInt(public_percent),
                                     r.lp_percent, FromInt(funds_to_raise))

\* one run of the script, top to bottom, with the current slider values
RunScript ==
    /\ web_pc = "rerun"
    /\ ValidityGate(validate_allocation(FromInt(team_percent), FromInt(public_percent)))
    /\ UNCHANGED <<team_percent, funds_to_raise, public_percent>>
    /\ UNCHANGED <<consts, guiVars, fnVars>>

\* a slider is moved: the widget takes the value and the script is re-run
\* from scratch
MoveSlider(t, f, p) ==
    /\ web_pc # "rerun"
    /\ team_percent' = t
    /\ funds_to_raise' = f
    /\ public_percent' = p
    /\ web_pc' = "rerun"
    /\ is_valid' = FALSE
    /\ lp_percent' = FZero
    /\ error_msg' = ""
    /\ derived' = NoDerived
    /\ UNCHANGED <<consts, guiVars, fnVars>>

MoveTeamSlider ==
    \E v \in TeamRange \ {team_percent} : MoveSlider(v, funds_to_raise, public_percent)

MoveFundsSlider ==
    \E v \in FundsNear \ {funds_to_raise} : MoveSlider(team_percent, v, public_percent)

MovePublicSlider ==
    \E v \in PublicRange \ {public_percent} : MoveSlider(team_percent, funds_to_raise, v)

\* ------------------------------------------------------------------------
\* src/run.py.  A handler works on the object's fields, gathered in a record.
\* ------------------------------------------------------------------------
Self ==
    [team_var |-> team_var, funds_var |-> funds_var, public_var |-> public_var,
     prev_team |-> prev_team, prev_public |-> prev_public,
     team_traces |-> team_traces, public_traces |-> public_traces,
     display |-> display, updated |-> updated, validations |-> validations]

\* update_calculations, block by block; d holds the locals computed so far.
\* The labels show the numbers formatted: the record keeps the numbers the
\* format strings are given.
ShowResults(g, d) == [g EXCEPT !.updated = TRUE, !.display = d]

CalcMultiple(g, d) ==
    ShowResults(g, d @@
        [fdv_multiple |-> IF FGt(d.fdv_ico, FZero)
                          THEN FDiv(d.fdv_lp, d.fdv_ico) ELSE FZero])

CalcFdvs(g, d) ==
    CalcMultiple(g, d @@
        [fdv_ico |-> FMul(TOTAL_SUPPLY, d.ico_price),
         fdv_lp |-> FMul(TOTAL_SUPPLY, d.lp_price)])

CalcPrices(g, d) ==
    CalcFdvs(g, d @@
        [ico_price |-> IF FGt(d.public_tokens, FZero)
                       THEN FDiv(d.funds_to_raise, d.public_tokens) ELSE FZero,
         lp_price |-> IF FGt(d.lp_tokens, FZero)
                      THEN FDiv(d.lp_funds, d.lp_tokens) ELSE FZero])

CalcFunds(g, d) ==
    CalcPrices(g, d @@
        [lp_funds |-> FMul(d.funds_to_raise, LP_FUND_PERCENT),
         team_funds |-> FMul(d.funds_to_raise, FSub(One, LP_FUND_PERCENT))])

\* the LP display: near_zero is the first branch, near_limit the second
CalcWarning(g, d, near_zero, near_limit) ==
    CalcFunds(g, d @@
        [at_minimum |-> near_zero \/ near_limit,
         warning_msg |-> IF near_zero THEN WarnLpZero
                         ELSE IF near_limit THEN WarnLpFdv ELSE "",
         lp_bar |-> IF FGt(d.lp_percent, FZero) THEN d.lp_percent ELSE FZero])

\* the LP display with a tolerance of a whole percentage point at the limit
CalcLpDisplayWide(g, d) ==
    CalcWarning(g, d,
        FLt(d.lp_percent, One),
        /\ ~FLt(d.lp_percent, One)
        /\ FGt(d.public_percent, PointOne)
        /\ FLt(FAbs(FSub(d.lp_percent, FMul(PointTwo, d.public_percent))), One))

CalcLpDisplay(g, d) ==
    CalcWarning(g, d,
        FLt(d.lp_percent, One),
        /\ ~FLt(d.lp_percent, One)
        /\ FGt(d.public_percent, PointOne)
        /\ FLt(FAbs(FSub(d.lp_percent, FMul(PointTwo, d.public_percent))), PointFive))

CalcTokens(g, d) ==
    CalcLpDisplay(g, d @@
        [team_tokens |-> FMul(TOTAL_SUPPLY, FDiv(d.team_percent, Hundred)),
         public_tokens |-> FMul(TOTAL_SUPPLY, FDiv(d.public_percent, Hundred)),
         lp_tokens |-> FMul(TOTAL_SUPPLY, FDiv(d.lp_percent, Hundred))])

update_calculations(g) ==
    CalcTokens(g,
        [team_percent |-> g.team_var, public_percent |-> g.public_var,
         funds_to_raise |-> g.funds_var,
         lp_percent |-> FSub(FSub(Hundred, g.team_var), g.public_var)])

\* the acceptance test without the guard on a very small public percentage
AcceptanceChecksUnguarded(team_val, public_val, lp_val) ==
    IF FGe(FAdd(team_val, public_val), Hundred) THEN FALSE
    ELSE IF FLt(lp_val, PointOne) THEN FALSE
    ELSE IF FGt(lp_val, FMul(PointTwo, public_val))
    THEN FALSE
    ELSE TRUE

\* the acceptance test at the head of validate_and_update
AcceptanceChecks(team_val, public_val, lp_val) ==
    IF FGe(FAdd(team_val, public_val), Hundred) THEN FALSE
    ELSE IF FLt(lp_val, PointOne) THEN FALSE
    ELSE IF FGt(public_val, PointOne) /\ FGt(lp_val, FMul(PointTwo, public_val))
    THEN FALSE
    ELSE TRUE

AcceptanceTest(team_val, public_val) ==
    AcceptanceChecks(team_val, public_val,
                     FSub(FSub(Hundred, team_val), public_val))

RECURSIVE validate_and_update(_, _)

\* Variable.set: the value is stored, then the write traces run
WriteVar(g, slider_type, v) ==
    IF slider_type = "team"
    THEN (IF g.team_traces > 0
          THEN validate_and_update([g EXCEPT !.team_var = v], "team")
          ELSE [g EXCEPT !.team_var = v])
    ELSE IF slider_type = "public"
    THEN (IF g.public_traces > 0
          THEN validate_and_update([g EXCEPT !.public_var = v], "public")
          ELSE [g EXCEPT !.public_var = v])
    ELSE update_calculations([g EXCEPT !.funds_var = v])

\* only the team trace is put back after the revert
ReAddTeamTrace(g) == [g EXCEPT !.team_traces = @ + 1]

\* the traces are put back after the revert
ReAddTraces(g) == [g EXCEPT !.team_traces = @ + 1, !.public_traces = @ + 1]

\* the revert writing the committed value of the other percentage
RevertOther(g, slider_type) ==
    ReAddTraces(IF slider_type = "team" THEN WriteVar(g, "public", g.prev_public)
                ELSE IF slider_type = "public" THEN WriteVar(g, "team", g.prev_team)
                ELSE g)

\* the revert of a rejected write; g has the traces removed
Revert(g, slider_type) ==
    ReAddTraces(IF slider_type = "team" THEN WriteVar(g, "team", g.prev_team)
                ELSE IF slider_type = "public" THEN WriteVar(g, "public", g.prev_public)
                ELSE g)

\* validate_and_update without the commit of an accepted pair
validate_and_updateNoCommit(g, slider_type) ==
    IF ~AcceptanceTest(g.team_var, g.public_var)
    THEN Revert([g EXCEPT !.team_traces = @ - 1, !.public_traces = @ - 1,
                          !.validations = @ + 1],
                slider_type)
    ELSE update_calculations([g EXCEPT !.validations = @ + 1])

validate_and_update(g, slider_type) ==
    IF ~AcceptanceTest(g.team_var, g.public_var)
    THEN Revert([g EXCEPT !.team_traces = @ - 1, !.public_traces = @ - 1,
                          !.validations = @ + 1],
                slider_type)
    ELSE update_calculations([g EXCEPT !.prev_team = g.team_var,
                                       !.prev_public = g.public_var,
                                       !.validations = @ + 1])

\* __init__: the variables, the committed values, the traces, and the
\* initial calculation
Constructed ==
    update_calculations(
        [team_var |-> FromInt(TeamDefault), funds_var |-> FromInt(FundsDefault),
         public_var |-> FromInt(PublicDefault),
         prev_team |-> FromInt(TeamDefault), prev_public |-> FromInt(PublicDefault),
         team_traces |-> 1, public_traces |-> 1,
         display |-> <<>>, updated |-> FALSE, validations |-> 0])

GuiIs(g) ==
    /\ team_var = g.team_var
    /\ funds_var = g.funds_var
    /\ public_var = g.public_var
    /\ prev_team = g.prev_team
    /\ prev_public = g.prev_public
    /\ team_traces = g.team_traces
    /\ public_traces = g.public_traces
    /\ display = g.display
    /\ updated = g.updated
    /\ validations = g.validations

GuiInit == GuiIs(Constructed) /\ gui_pc = "idle"

Becomes(g) ==
    /\ team_var' = g.team_var
    /\ funds_var' = g.funds_var
    /\ public_var' = g.public_var
    /\ prev_team' = g.prev_team
    /\ prev_public' = g.prev_public
    /\ team_traces' = g.team_traces
    /\ public_traces' = g.public_traces
    /\ display' = g.display
    /\ updated' = g.updated
    /\ validations' = g.validations
    /\ gui_pc' = "idle"

\* a Scale widget stores a new slider value in its variable
TeamSlider ==
    /\ gui_pc = "idle"
    /\ \E v \in TeamNear :
          /\ FromInt(v) # team_var
          /\ team_var' = FromInt(v)
    /\ gui_pc' = "team"
    /\ updated' = FALSE
    /\ validations' = 0
    /\ UNCHANGED <<funds_var, public_var, prev_team, prev_public, team_traces,
                   public_traces, display>>
    /\ UNCHANGED <<consts, webVars, fnVars>>

PublicSlider ==
    /\ gui_pc = "idle"
    /\ \E v \in PublicNear :
          /\ FromInt(v) # public_var
          /\ public_var' = FromInt(v)
    /\ gui_pc' = "public"
    /\ updated' = FALSE
    /\ validations' = 0
    /\ UNCHANGED <<team_var, funds_var, prev_team, prev_public, team_traces,
                   public_traces, display>>
    /\ UNCHANGED <<consts, webVars, fnVars>>

FundsSlider ==
    /\ gui_pc = "idle"
    /\ \E v \in FundsNear :
          /\ FromInt(v) # funds_var
          /\ funds_var' = FromInt(v)
    /\ gui_pc' = "funds"
    /\ updated' = FALSE
    /\ validations' = 0
    /\ UNCHANGED <<team_var, public_var, prev_team, prev_public, team_traces,
                   public_traces, display>>
    /\ UNCHANGED <<consts, webVars, fnVars>>

\* the write traces of the variable just written
TeamTrace ==
    /\ gui_pc = "team"
    /\ Becomes(IF team_traces > 0 THEN validate_and_update(Self, "team") ELSE Self)
    /\ UNCHANGED <<consts, webVars, fnVars>>

PublicTrace ==
    /\ gui_pc = "public"
    /\ Becomes(IF public_traces > 0 THEN validate_and_update(Self, "public") ELSE Self)
    /\ UNCHANGED <<consts, webVars, fnVars>>

FundsTrace ==
    /\ gui_pc = "funds"
    /\ Becomes(update_calculations(Self))
    /\ UNCHANGED <<consts, webVars, fnVars>>

\* ------------------------------------------------------------------------
\* The functions called on their own.  Percentages are given in tenths.
\* ------------------------------------------------------------------------
ValidateCalls ==
    {[fn |-> "validate_allocation", team |-> 10 * t, public |-> p, funds |-> 0] :
        t \in {TeamMin, TeamDefault, TeamMax},
        p \in (899 - TenthsWindow)..(899 + TenthsWindow)}

DerivePairs == {<<0, 0>>, <<10, 90>>, <<0, 100>>, <<16, 70>>, <<20, 75>>}

DeriveCalls ==
    {[fn |-> "derivation", team |-> 10 * tp[1], public |-> 10 * tp[2], funds |-> f] :
        tp \in DerivePairs, f \in FundsRange}

FnInit ==
    /\ fn_call \in ValidateCalls \cup DeriveCalls
    /\ fn_ret = <<>>

CallValidate ==
    /\ fn_ret = <<>>
    /\ fn_call.fn = "validate_allocation"
    /\ fn_ret' = <<validate_allocation(Lit(fn_call.team, 10), Lit(fn_call.public, 10))>>
    /\ UNCHANGED <<fn_call, consts, guiVars, webVars>>

\* line 119 and lines 136-163 of the script
ScriptDerivation(team, public, funds) ==
    Derivation(team, public, validate_allocation(team, public).lp_percent, funds)

CallDerive ==
    /\ fn_ret = <<>>
    /\ fn_call.fn = "derivation"
    /\ fn_ret' = <<ScriptDerivation(Lit(fn_call.team, 10), Lit(fn_call.public, 10),
                                    FromInt(fn_call.funds))>>
    /\ UNCHANGED <<fn_call, consts, guiVars, webVars>>

\* ------------------------------------------------------------------------
\* Specifications
\* ------------------------------------------------------------------------
ConstInit ==
    /\ TOTAL_SUPPLY = TenBillion
    /\ LP_FUND_PERCENT = Lit(20, 100)

FnIdle ==
    /\ fn_call = [fn |-> "none", team |-> 0, public |-> 0, funds |-> 0]
    /\ fn_ret = <<>>

\* the desktop GUI
Init == ConstInit /\ GuiInit /\ WebInit /\ FnIdle
Next ==
    \/ TeamSlider \/ PublicSlider \/ FundsSlider
    \/ TeamTrace \/ PublicTrace \/ FundsTrace
Spec == Init /\ [][Next]_vars

\* the web app
WebNext == RunScript \/ MoveTeamSlider \/ MoveFundsSlider \/ MovePublicSlider
WebSpec == Init /\ [][WebNext]_vars

\* the functions, each called once on every argument of the bounded sets
FnSpecInit == ConstInit /\ GuiInit /\ WebInit /\ FnInit
FnNext == CallValidate \/ CallDerive
FnSpec == FnSpecInit /\ [][FnNext]_vars

\* ------------------------------------------------------------------------
\* Properties
\* ------------------------------------------------------------------------
\* the outcome of the validator in exact integer arithmetic, percentages
\* being whole numbers: lp < 0.1 is 10 lp < 1, public > 0.1 is 10 public > 1
\* and lp > 0.2 public is 5 lp > public
ExactOutcome(public, lp) ==
    IF 10 * lp < 1
    THEN [valid |-> FALSE, lp_percent |-> FromInt(lp), error_msg |-> MsgLpZero]
    ELSE IF 10 * public > 1 /\ 5 * lp > public
    THEN [valid |-> FALSE, lp_percent |-> FromInt(lp), error_msg |-> MsgLpFdv]
    ELSE [valid |-> TRUE, lp_percent |-> FromInt(lp), error_msg |-> ""]

WebOutcome == [valid |-> is_valid, lp_percent |-> lp_percent, error_msg |-> error_msg]

\* C1: once the script has run on the slider values, the validator has
\* returned lp = 100 - team - public in every outcome and has decided in
\* order: lp < 0.1 is invalid with "LP cannot be 0%"; else public > 0.1 and
\* lp > 0.2 public is invalid with "LP FDV would drop below ICO FDV"; else
\* valid with an empty message.  The default (10, 70) is invalid with the FDV
\* message and lp = 20.
C1_DecisionOrder ==
    web_pc # "rerun" =>
        /\ WebOutcome = ExactOutcome(public_percent, 100 - team_percent - public_percent)
        /\ (team_percent = 10 /\ public_percent = 70) =>
              /\ ~is_valid
              /\ error_msg = "LP FDV would drop below ICO FDV"
              /\ lp_percent = FromInt(20)

\* the script has run on the default allocation and stopped at the gate
C1_DefaultRejected ==
    /\ web_pc = "stopped"
    /\ team_percent = 10 /\ public_percent = 70
    /\ error_msg = MsgLpFdv
    /\ lp_percent = FromInt(20)

\* C2: for every accepted input with public > 0.1 the derived valuations
\* satisfy fdv_lp >= fdv_ico, lp_price >= ico_price and fdv_multiple >= 1.
C2_LpFdvAtLeastIcoFdv ==
    (web_pc = "done" /\ is_valid /\ FGt(FromInt(public_percent), PointOne)) =>
        /\ FGe(derived.fdv_lp, derived.fdv_ico)
        /\ FGe(derived.lp_price, derived.ico_price)
        /\ FGe(derived.fdv_multiple, One)

\* C3: in the desktop GUI the committed pair (prev_team, prev_public) is
\* always an allocation the validator accepts.
C3_CommittedPairValid ==
    validate_allocation(prev_team, prev_public).valid

\* C4: neither front end derives for an invalid allocation: the web script
\* reaches the derivation only after validate_allocation returned valid, and
\* whenever update_calculations has run in the GUI, the pair it ran on is one
\* the validator accepts.
C4_NoDerivationWhenInvalid ==
    /\ web_pc = "done" => is_valid
    /\ (gui_pc = "idle" /\ updated) =>
          validate_allocation(display.team_percent, display.public_percent).valid

\* C5: for every pair of slider values the GUI's acceptance test accepts
\* the pair if and only if validate_allocation returns valid.
C5_SameDecision ==
    web_pc # "rerun" =>
        (is_valid <=> AcceptanceTest(FromInt(team_percent), FromInt(public_percent)))

\* both reject a pair with team + public >= 100
C5_BothReject ==
    /\ web_pc = "stopped"
    /\ team_percent + public_percent >= 100
    /\ ~AcceptanceTest(FromInt(team_percent), FromInt(public_percent))

DeriveReturned == fn_call.fn = "derivation" /\ fn_ret # <<>>
ValidateReturned == fn_call.fn = "validate_allocation" /\ fn_ret # <<>>

\* C6: the derivation never fails on a zero denominator: public_tokens = 0
\* gives ico_price = 0, fdv_ico = 0 and fdv_multiple = 0, lp_tokens = 0 gives
\* lp_price = 0, and (0, 0, 100000) is valid with lp = 100, ico_price = 0,
\* fdv_ico = 0, fdv_multiple = 0 and fdv_lp = 20000.
C6_ZeroDenominators ==
    DeriveReturned =>
        /\ \A k \in DOMAIN fn_ret[1] : fn_ret[1][k].sg # FError.sg
        /\ fn_ret[1].public_tokens = FZero =>
              /\ fn_ret[1].ico_price = FZero
              /\ fn_ret[1].fdv_ico = FZero
              /\ fn_ret[1].fdv_multiple = FZero
        /\ fn_ret[1].lp_tokens = FZero => fn_ret[1].lp_price = FZero
        /\ (fn_call.team = 0 /\ fn_call.public = 0 /\ fn_call.funds = 100000) =>
              /\ validate_allocation(FromInt(0), FromInt(0)) =
                    [valid |-> TRUE, lp_percent |-> FromInt(100), error_msg |-> ""]
              /\ fn_ret[1].ico_price = FZero
              /\ fn_ret[1].fdv_ico = FZero
              /\ fn_ret[1].fdv_multiple = FZero
              /\ fn_ret[1].fdv_lp = FromInt(20000)

\* the derivation has returned for (0, 0, 100000), where no public tokens
\* are sold
C6_NoPublicTokens ==
    /\ DeriveReturned
    /\ fn_call.team = 0 /\ fn_call.public = 0 /\ fn_call.funds = 100000
    /\ fn_ret[1].public_tokens = FZero
    /\ fn_ret[1].fdv_lp = FromInt(20000)

\* C7: for every funds_to_raise from 10,000 to 2,000,000 in steps of 10,000,
\* lp_funds is 20% of it, team_funds is 80% of it and the two add up to it
\* exactly; TOTAL_SUPPLY and LP_FUND_PERCENT keep their values.
C7_FundsSplit ==
    /\ TOTAL_SUPPLY = TenBillion
    /\ LP_FUND_PERCENT = Lit(20, 100)
    /\ DeriveReturned =>
          /\ fn_ret[1].lp_funds = FromInt(fn_call.funds \div 5)
          /\ fn_ret[1].team_funds = FromInt(4 * (fn_call.funds \div 5))
          /\ FAdd(fn_ret[1].lp_funds, fn_ret[1].team_funds) = FromInt(fn_call.funds)

\* the derivation has returned for the largest funds_to_raise
C7_LargestFunds ==
    /\ DeriveReturned
    /\ fn_call.funds = 2000000
    /\ fn_ret[1].lp_funds = FromInt(400000)
    /\ fn_ret[1].team_funds = FromInt(1600000)

\* C8: validate_allocation(10, 89.9) computes lp = 0.1, which is not below
\* the floor, and is valid; validate_allocation(10, 90) computes lp = 0 and
\* is invalid with "LP cannot be 0%".
C8_StrictFloor ==
    /\ (ValidateReturned /\ fn_call.team = 100 /\ fn_call.public = 899) =>
          /\ fn_ret[1].valid
          /\ fn_ret[1].lp_percent = Lit(1, 10)
    /\ (ValidateReturned /\ fn_call.team = 100 /\ fn_call.public = 900) =>
          /\ ~fn_ret[1].valid
          /\ fn_ret[1].lp_percent = FZero
          /\ fn_ret[1].error_msg = "LP cannot be 0%"

\* a write to the team variable is being traced and the pair is rejected:
\* the variable goes back to prev_team and nothing else changes
TeamWriteRejected ==
    (gui_pc = "team" /\ ~AcceptanceTest(team_var, public_var)) =>
        /\ team_var' = prev_team
        /\ UNCHANGED <<public_var, funds_var, prev_team, prev_public, display>>
        /\ ~updated'

PublicWriteRejected ==
    (gui_pc = "public" /\ ~AcceptanceTest(team_var, public_var)) =>
        /\ public_var' = prev_public
        /\ UNCHANGED <<team_var, funds_var, prev_team, prev_public, display>>
        /\ ~updated'

\* C9: when a write to the team (public) variable gives a pair the
\* acceptance test rejects, validate_and_update puts the variable back to
\* prev_team (prev_public) and leaves the other percentage, the funds,
\* prev_team, prev_public and the displayed results unchanged, without
\* running update_calculations.
C9_RejectedWriteReverts == [][TeamWriteRejected /\ PublicWriteRejected]_vars

\* a write has been rejected and reverted: its traces have returned without
\* update_calculations
C9_WriteReverted ==
    /\ gui_pc = "idle"
    /\ ~updated
    /\ team_var = prev_team
    /\ public_var = prev_public

\* within 0.5 of a boundary, for whole percentages: of the floor 0.1 when
\* |10 lp - 1| < 5, of the limit 0.2 public when public > 0.1 and
\* |10 lp - 2 public| < 5
NearFloor(lp) == 10 * lp - 1 < 5 /\ 1 - 10 * lp < 5
NearLimit(public, lp) ==
    /\ 10 * public > 1
    /\ 10 * lp - 2 * public < 5
    /\ 2 * public - 10 * lp < 5

NearBoundary(team, public) ==
    NearFloor(100 - team - public) \/ NearLimit(public, 100 - team - public)

\* the token, fund, price and FDV values of the display are those of the
\* derivation, which has no diagnostic
SameDerived(d, r) == \A k \in DOMAIN r : d[k] = r[k]

C11_LiveEqualsCommitted ==
    gui_pc = "idle" => (team_var = prev_team /\ public_var = prev_public)

\* a change has been accepted and committed: the pair is no longer the
\* start-up pair, and the handler has run update_calculations
C11_ChangeCommitted ==
    /\ gui_pc = "idle"
    /\ updated
    /\ team_var = prev_team /\ public_var = prev_public
    /\ prev_team # FromInt(10)
    /\ prev_public # FromInt(70)

\* the step taken while a write is being traced is the return of its
\* handler, which has entered validate_and_update once for a team or public
\* write and not at all for a funds write
HandlerReturns ==
    gui_pc # "idle" =>
        /\ gui_pc' = "idle"
        /\ validations' = (IF gui_pc = "funds" THEN 0 ELSE 1)

\* C12: in the desktop GUI the revert of a rejected change does not re-enter
\* validation: the traces of one write enter validate_and_update once, not
\* again for the revert's own write, and the handler returns; and one
\* validation trace is registered on team_var and one on public_var
\* whenever a write can happen, so every later write is still validated.
C12_RevertDoesNotReenter ==
    /\ [](validations <= 1 /\ team_traces = 1 /\ public_traces = 1)
    /\ [][HandlerReturns]_vars

\* a rejected write has been reverted after a single validation, and both
\* traces are registered again
C12_RevertedOnce ==
    /\ gui_pc = "idle"
    /\ ~updated
    /\ validations = 1
    /\ team_traces = 1
    /\ public_traces = 1

====
